---- MODULE Spec2Model ----
(***************************************************************************)
(* Model of sitemap-iter (src/src/lib.rs): Frequency::from_str,            *)
(* node_text_expected_name and the double-ended, cloneable entry iterator  *)
(* returned by Document::iterate.                                          *)
(*                                                                         *)
(* Texts are tuples of one-character strings, so that the parsers work on  *)
(* characters as the code does.  An Option is a sequence of length at most *)
(* one: None is << >>, Some(x) is << x >>.                                 *)
(***************************************************************************)
EXTENDS Integers, Sequences, FiniteSets

\* Largest number of children of the root element in the enumerated documents.
MaxChildren == 3
\* Largest number of child nodes of an entry in the enumerated entries.
MaxFields == 3

None == << >>
Some(x) == << x >>
IsSome(o) == o # << >>
Unwrap(o) == o[1]

(***************************************************************************)
(* The node tree handed over by the XML tree builder.                      *)
(***************************************************************************)
Text(s) == [kind |-> "text", name |-> "", text |-> s, kids |-> << >>]
Comment(s) == [kind |-> "comment", name |-> "", text |-> s, kids |-> << >>]
Elem(n, ks) == [kind |-> "element", name |-> n, text |-> << >>, kids |-> ks]

is_element(node) == node.kind = "element"

\* Node::text of the tree builder: an element's text is its first child when
\* that child is a text node; a text or comment node's text is its own.
NodeText(node) ==
  IF node.kind = "element"
  THEN IF node.kids # << >> /\ node.kids[1].kind = "text"
       THEN Some(node.kids[1].text)
       ELSE None
  ELSE Some(node.text)

node_text_expected_name(node, expected_tag) ==
  IF node.name = expected_tag /\ IsSome(NodeText(node))
  THEN NodeText(node)
  ELSE None

(***************************************************************************)
(* Frequency::from_str                                                     *)
(***************************************************************************)
UpperCase == << "A", "B", "C", "D", "E", "F", "G", "H", "I", "J", "K", "L", "M",
                "N", "O", "P", "Q", "R", "S", "T", "U", "V", "W", "X", "Y", "Z" >>
LowerCase == << "a", "b", "c", "d", "e", "f", "g", "h", "i", "j", "k", "l", "m",
                "n", "o", "p", "q", "r", "s", "t", "u", "v", "w", "x", "y", "z" >>

to_ascii_lowercase(c) ==
  IF \E i \in DOMAIN UpperCase : UpperCase[i] = c
  THEN LowerCase[CHOOSE i \in DOMAIN UpperCase : UpperCase[i] = c]
  ELSE c

eq_ignore_ascii_case(a, b) ==
  /\ Len(a) = Len(b)
  /\ \A i \in 1..Len(a) : to_ascii_lowercase(a[i]) = to_ascii_lowercase(b[i])

Frequency == {"Always", "Hourly", "Daily", "Weekly", "Monthly", "Yearly", "Never"}

\* The token the code compares the text with for each variant.
Token(f) ==
  CASE f = "Always"  -> << "a", "l", "w", "a", "y", "s" >>
    [] f = "Hourly"  -> << "h", "o", "u", "r", "l", "y" >>
    [] f = "Daily"   -> << "d", "a", "i", "l", "y" >>
    [] f = "Weekly"  -> << "w", "e", "e", "k", "l", "y" >>
    [] f = "Monthly" -> << "m", "o", "n", "t", "h", "l", "y" >>
    [] f = "Yearly"  -> << "y", "e", "a", "r", "l", "y" >>
    [] f = "Never"   -> << "n", "e", "v", "e", "r" >>

\* Ok(variant) is Some(variant), Err(InvalidFrequency) is None.
from_str(s) ==
  IF eq_ignore_ascii_case(s, Token("Always")) THEN Some("Always")
  ELSE IF eq_ignore_ascii_case(s, Token("Hourly")) THEN Some("Hourly")
  ELSE IF eq_ignore_ascii_case(s, Token("Daily")) THEN Some("Daily")
  ELSE IF eq_ignore_ascii_case(s, Token("Weekly")) THEN Some("Weekly")
  ELSE IF eq_ignore_ascii_case(s, Token("Monthly")) THEN Some("Monthly")
  ELSE IF eq_ignore_ascii_case(s, Token("Yearly")) THEN Some("Yearly")
  ELSE IF eq_ignore_ascii_case(s, Token("Never")) THEN Some("Never")
  ELSE None

(***************************************************************************)
(* str::parse::<f32>, the standard decimal grammar:                        *)
(*   [+-] ( digits [. digits] | . digits ) [ (e|E) [+-] digits ]           *)
(*   [+-] ( inf | infinity | nan )      (ignoring ASCII case)              *)
(* A finite value is kept as the exact fraction num/den with its sign.     *)
(* The enumerated texts are at most a few characters long, and for those   *)
(* rounding to f32 does not change the comparison with 0.0 and 1.0.        *)
(***************************************************************************)
Digits == << "0", "1", "2", "3", "4", "5", "6", "7", "8", "9" >>
IsDigit(c) == \E i \in DOMAIN Digits : Digits[i] = c
DigitVal(c) == (CHOOSE i \in DOMAIN Digits : Digits[i] = c) - 1

RECURSIVE Pow10(_)
Pow10(n) == IF n = 0 THEN 1 ELSE 10 * Pow10(n - 1)

RECURSIVE DigitsLen(_)
\* Length of the longest prefix of s made of digits.
DigitsLen(s) == IF s # << >> /\ IsDigit(Head(s)) THEN 1 + DigitsLen(Tail(s)) ELSE 0

RECURSIVE DigitsVal(_, _)
\* Value of the digit string s, continuing from acc.
DigitsVal(s, acc) ==
  IF s = << >> THEN acc ELSE DigitsVal(Tail(s), 10 * acc + DigitVal(Head(s)))

Drop(s, n) == SubSeq(s, n + 1, Len(s))
Take(s, n) == SubSeq(s, 1, n)

Finite(neg, num, den) == [kind |-> "finite", neg |-> neg, num |-> num, den |-> den]
Infinite(neg) == [kind |-> "inf", neg |-> neg, num |-> 0, den |-> 1]
NaN == [kind |-> "nan", neg |-> FALSE, num |-> 0, den |-> 1]

\* The unsigned part of a number.
ParseUnsigned(neg, s) ==
  LET il == DigitsLen(s)
      afterInt == Drop(s, il)
      hasDot == afterInt # << >> /\ Head(afterInt) = "."
      fracStart == IF hasDot THEN Tail(afterInt) ELSE afterInt
      fl == IF hasDot THEN DigitsLen(fracStart) ELSE 0
      afterFrac == Drop(fracStart, fl)
      mant == DigitsVal(Take(fracStart, fl), DigitsVal(Take(s, il), 0))
      hasExp == afterFrac # << >> /\ Head(afterFrac) \in {"e", "E"}
      expSigned == IF hasExp THEN Tail(afterFrac) ELSE << >>
      expNeg == expSigned # << >> /\ Head(expSigned) = "-"
      expDigits == IF expSigned # << >> /\ Head(expSigned) \in {"+", "-"}
                   THEN Tail(expSigned) ELSE expSigned
      el == DigitsLen(expDigits)
      expVal == DigitsVal(expDigits, 0)
      e10 == (IF expNeg THEN 0 - expVal ELSE expVal) - fl
  IN IF il + fl = 0 THEN None
     ELSE IF ~hasExp
          THEN IF afterFrac = << >> THEN Some(Finite(neg, mant, Pow10(fl))) ELSE None
          ELSE IF el = 0 \/ el # Len(expDigits) THEN None
               ELSE IF e10 >= 0 THEN Some(Finite(neg, mant * Pow10(e10), 1))
                    ELSE Some(Finite(neg, mant, Pow10(0 - e10)))

\* Ok(value) is Some(value), Err(ParseFloatError) is None.
parse_f32(text) ==
  LET neg == text # << >> /\ Head(text) = "-"
      s == IF text # << >> /\ Head(text) \in {"+", "-"} THEN Tail(text) ELSE text
  IN IF s = << >> THEN None
     ELSE IF eq_ignore_ascii_case(s, << "n", "a", "n" >>) THEN Some(NaN)
     ELSE IF \/ eq_ignore_ascii_case(s, << "i", "n", "f" >>)
             \/ eq_ignore_ascii_case(s, << "i", "n", "f", "i", "n", "i", "t", "y" >>)
          THEN Some(Infinite(neg))
     ELSE ParseUnsigned(neg, s)

\* The mutant checks the upper end of the range only.
at_most_one(num) ==
  num.kind = "finite" /\ (num.neg \/ num.num <= num.den)

\* (0.0..=1.0).contains(&num): -0.0 compares equal to 0.0, NaN to nothing.
in_unit_range(num) ==
  /\ num.kind = "finite"
  /\ \/ num.num = 0
     \/ ~num.neg /\ num.num <= num.den

(***************************************************************************)
(* The scan of one child of <urlset> (the closure given to filter_map).    *)
(***************************************************************************)
Diag(level, msg) == [level |-> level, msg |-> msg]

EmptySlots == [loc |-> None, lastmod |-> None, changefreq |-> None, priority |-> None]

\* Outcome of one pass of the loop body: ret is TRUE when the closure returns.
Pass(ret, slots, diags) == [ret |-> ret, slots |-> slots, diags |-> diags]

\* The mutant keeps the first location and goes on.
loc_keep_first(s, text) ==
  IF ~IsSome(s.loc)
  THEN Pass(FALSE, [s EXCEPT !.loc = Some(text)], << >>)
  ELSE Pass(FALSE, s, << Diag("error", "Multiple <loc> in entry.") >>)

loc_branch(s, text) ==
  IF ~IsSome(s.loc)
  THEN Pass(FALSE, [s EXCEPT !.loc = Some(text)], << >>)
  ELSE Pass(TRUE, s, << Diag("error", "Multiple <loc> in entry.") >>)

\* The mutant keeps the first value.
lastmod_keep_first(s, text) ==
  IF IsSome(s.lastmod)
  THEN Pass(FALSE, s, << Diag("warn", "Multiple <lastmod> in entry.") >>)
  ELSE Pass(FALSE, [s EXCEPT !.lastmod = Some(text)], << >>)

lastmod_branch(s, text) ==
  Pass(FALSE, [s EXCEPT !.lastmod = Some(text)],
       IF IsSome(s.lastmod)
       THEN << Diag("warn", "Multiple <lastmod> in entry.") >> ELSE << >>)

\* `if let Ok(frequency) = text.parse()`, parsed being the result of the parse.
changefreq_parsed(s, parsed, multiple) ==
  IF IsSome(parsed)
  THEN Pass(FALSE, [s EXCEPT !.changefreq = Some(Unwrap(parsed))], multiple)
  ELSE Pass(FALSE, s, multiple \o << Diag("warn", "<changefreq> has invalid format") >>)

changefreq_branch(s, text) ==
  changefreq_parsed(s, from_str(text),
                    IF IsSome(s.changefreq)
                    THEN << Diag("warn", "Multiple <changefreq> in entry.") >> ELSE << >>)

\* The mutant gives up the entry when the priority does not parse.
priority_reject_invalid(s, parsed, multiple) ==
  IF IsSome(parsed)
  THEN IF in_unit_range(Unwrap(parsed))
       THEN Pass(FALSE, [s EXCEPT !.priority = Some(Unwrap(parsed))], multiple)
       ELSE Pass(FALSE, s, multiple \o << Diag("warn", "<priority> is out of range") >>)
  ELSE Pass(TRUE, s, multiple \o << Diag("warn", "<priority> has invalid format") >>)

\* `if let Ok(num) = text.parse()`, parsed being the result of the parse.
priority_parsed(s, parsed, multiple) ==
  IF IsSome(parsed)
  THEN IF in_unit_range(Unwrap(parsed))
       THEN Pass(FALSE, [s EXCEPT !.priority = Some(Unwrap(parsed))], multiple)
       ELSE Pass(FALSE, s, multiple \o << Diag("warn", "<priority> is out of range") >>)
  ELSE Pass(FALSE, s, multiple \o << Diag("warn", "<priority> has invalid format") >>)

priority_branch(s, text) ==
  priority_parsed(s, parse_f32(text),
                  IF IsSome(s.priority)
                  THEN << Diag("warn", "Multiple <priority> in entry.") >> ELSE << >>)

\* The body of `for child in children`: the if / else-if chain.
loop_body(s, child) ==
  IF IsSome(node_text_expected_name(child, "loc"))
  THEN loc_branch(s, Unwrap(node_text_expected_name(child, "loc")))
  ELSE IF IsSome(node_text_expected_name(child, "lastmod"))
  THEN lastmod_branch(s, Unwrap(node_text_expected_name(child, "lastmod")))
  ELSE IF IsSome(node_text_expected_name(child, "changefreq"))
  THEN changefreq_branch(s, Unwrap(node_text_expected_name(child, "changefreq")))
  ELSE IF IsSome(node_text_expected_name(child, "priority"))
  THEN priority_branch(s, Unwrap(node_text_expected_name(child, "priority")))
  ELSE Pass(FALSE, s, << >>)

RECURSIVE for_children(_, _, _)
\* After the pass p over one child: return, or go on with the rest.
for_rest(rest, p, log) ==
  IF p.ret
  THEN Pass(TRUE, p.slots, log \o p.diags)
  ELSE for_children(rest, p.slots, log \o p.diags)

\* The for loop over the element children, from slots s and diagnostics log.
for_children(children, s, log) ==
  IF children = << >>
  THEN Pass(FALSE, s, log)
  ELSE for_rest(Tail(children), loop_body(s, Head(children)), log)

UrlEntry(location, last_modified, change_frequency, priority) ==
  [location |-> location, last_modified |-> last_modified,
   change_frequency |-> change_frequency, priority |-> priority]

Scanned(item, diags) == [item |-> item, diags |-> diags]

\* The mutant builds an entry with an empty location when none was found.
finish_with_default(s, log) ==
  IF IsSome(s.loc)
  THEN Scanned(Some(UrlEntry(Unwrap(s.loc), s.lastmod, s.changefreq, s.priority)), log)
  ELSE Scanned(Some(UrlEntry(<< >>, s.lastmod, s.changefreq, s.priority)),
               log \o << Diag("error", "Expected <loc>, but found none.") >>)

\* After the loop: the entry, or the error for a missing location.
finish(s, log) ==
  IF IsSome(s.loc)
  THEN Scanned(Some(UrlEntry(Unwrap(s.loc), s.lastmod, s.changefreq, s.priority)), log)
  ELSE Scanned(None, log \o << Diag("error", "Expected <loc>, but found none.") >>)

\* The end of the closure, r being the outcome of the loop.
after_loop(r) == IF r.ret THEN Scanned(None, r.diags) ELSE finish(r.slots, r.diags)

\* The closure: what one child c of <urlset> yields, and what it logs.
scan_entry(c) == after_loop(for_children(SelectSeq(c.kids, is_element), EmptySlots, << >>))

(***************************************************************************)
(* The documents the model enumerates.                                     *)
(***************************************************************************)
SeqUpTo(S, n) == UNION {[1..m -> S] : m \in 0..n}

Ws == Text(<< " " >>)
Chars_a == << "/", "a" >>
Chars_b == << "/", "b" >>
Chars_2020 == << "2", "0", "2", "0" >>
Chars_2021 == << "2", "0", "2", "1" >>
Field(n, chars) == Elem(n, << Text(chars) >>)

\* The child nodes an enumerated entry is built from.
FieldPool ==
  { Field("loc", Chars_a), Field("loc", Chars_b), Elem("loc", << >>),
    Elem("loc", << Comment(<< "c" >>), Text(Chars_a) >>),
    Field("lastmod", Chars_2020), Field("lastmod", Chars_2021),
    Field("changefreq", << "W", "e", "e", "k", "l", "y" >>),
    Field("changefreq", << "N", "E", "V", "E", "R" >>),
    Field("changefreq", << "w", "e", "e", "k" >>),
    Field("priority", << "0", ".", "5" >>), Field("priority", << "1" >>),
    Field("priority", << "1", ".", "5" >>), Field("priority", << "a", "b", "c" >>),
    Field("priority", << "-", "1" >>),
    Field("image", Chars_a), Ws }

\* The children of <urlset> the documents with several children are built from.
ChildPool ==
  { Elem("url", << Field("loc", Chars_a) >>),
    Elem("item", << Ws, Field("priority", << "1", ".", "5" >>), Field("loc", Chars_b),
                    Field("lastmod", Chars_2020) >>),
    Elem("url", << Field("loc", Chars_a), Field("loc", Chars_b) >>),
    Ws }

\* Documents with a <urlset> root and up to MaxChildren children.
DocsWide == {<< Elem("urlset", ks) >> : ks \in SeqUpTo(ChildPool, MaxChildren)}

\* Documents with a comment, then a <urlset> root with one entry (or one
\* node that is no element).
DocsDeep ==
  {<< Comment(<< "c" >>), Elem("urlset", << Elem("url", fs) >>) >> :
     fs \in SeqUpTo(FieldPool, MaxFields)}
  \cup {<< Elem("urlset", << c >>) >> : c \in {Ws, Comment(<< "c" >>)}}

\* Documents whose first element is not <urlset>, or that have no element
\* (iterate handles both; the tree builder is not assumed to exclude either).
DocsNoUrlset ==
  { << >>, << Comment(<< "c" >>) >>,
    << Elem("sitemapindex", << Elem("url", << Field("loc", Chars_a) >>) >>) >>,
    << Comment(<< "c" >>), Elem("Urlset", << Elem("url", << Field("loc", Chars_a) >>) >>) >>,
    << Elem("url", << Field("loc", Chars_a) >>), Comment(<< "c" >>) >> }

(***************************************************************************)
(* State.                                                                  *)
(***************************************************************************)
\* The handles a caller holds: each is the result of one call of iterate or
\* of one clone.
Handles == {1, 2}

VARIABLES
  doc,     \* the parsed document: the children of its root node
  result,  \* result[h]: "NotCalled", "Ok" or "UrlsetMissing"
  iter,    \* iter[h]: the cursors of the iterator, and the children it started on
  fwd,     \* fwd[h]: what next has yielded, in order: [k: child, entry]
  bwd,     \* bwd[h]: what next_back has yielded, in order
  scans,   \* scans[h][k]: how many times h scanned child k of <urlset>
  log,     \* log[h]: the diagnostics emitted by calls on h: [k, level, msg]
  last     \* last[h]: the latest advance of h, op, and the child it yielded
           \* from, ret (0 for None); the latest advance that yielded, yop,
           \* and the child it yielded from, yk

vars == << doc, result, iter, fwd, bwd, scans, log, last >>

\* The mutant accepts the first element whatever its name.
find_first_element(d) ==
  LET elems == SelectSeq(d, is_element)
  IN IF elems = << >>
     THEN [node |-> None, diags |-> << >>]
     ELSE [node |-> Some(elems[1]), diags |-> << >>]

\* root().children().find(is_element).and_then(...): the <urlset> node.
find_urlset(d) ==
  LET elems == SelectSeq(d, is_element)
  IN IF elems = << >>
     THEN [node |-> None, diags |-> << >>]
     ELSE IF elems[1].name = "urlset"
          THEN [node |-> Some(elems[1]), diags |-> << >>]
          ELSE [node |-> None, diags |-> << Diag("error", "Expected <urlset>") >>]

\* The children of the <urlset> node (<< >> when there is none).
UrlsetChildren == 
  IF IsSome(find_urlset(doc).node) THEN Unwrap(find_urlset(doc).node).kids ELSE << >>

NoIter == [front |-> 1, back |-> 0, lo |-> 1, hi |-> 0]
NoAdvance == [op |-> "none", ret |-> 0, yop |-> "none", yk |-> 0]
Logged(k, d) == [k |-> k, level |-> d.level, msg |-> d.msg]
LoggedAll(k, diags) == [j \in 1..Len(diags) |-> Logged(k, diags[j])]

InitOn(docs) ==
  /\ doc \in docs
  /\ result = [h \in Handles |-> "NotCalled"]
  /\ iter = [h \in Handles |-> NoIter]
  /\ fwd = [h \in Handles |-> << >>]
  /\ bwd = [h \in Handles |-> << >>]
  /\ scans = [h \in Handles |-> << >>]
  /\ log = [h \in Handles |-> << >>]
  /\ last = [h \in Handles |-> NoAdvance]

Init == InitOn(DocsWide \cup DocsNoUrlset)
InitEntry == InitOn(DocsDeep)

(***************************************************************************)
(* Document::iterate                                                       *)
(***************************************************************************)
iterate(h) ==
  /\ result[h] = "NotCalled"
  /\ LET r == find_urlset(doc)
     IN IF IsSome(r.node)
        THEN /\ result' = [result EXCEPT ![h] = "Ok"]
             /\ iter' = [iter EXCEPT ![h] =
                  [front |-> 1, back |-> Len(Unwrap(r.node).kids),
                   lo |-> 1, hi |-> Len(Unwrap(r.node).kids)]]
             /\ scans' = [scans EXCEPT ![h] = [k \in 1..Len(Unwrap(r.node).kids) |-> 0]]
             /\ log' = [log EXCEPT ![h] = LoggedAll(0, r.diags)]
        ELSE /\ result' = [result EXCEPT ![h] = "UrlsetMissing"]
             /\ log' = [log EXCEPT ![h] = LoggedAll(0, r.diags)]
             /\ UNCHANGED << iter, scans >>
  /\ UNCHANGED << doc, fwd, bwd, last >>

(***************************************************************************)
(* The iterator: node.children().filter_map(closure)                       *)
(***************************************************************************)
Taken(k, cur) == [k |-> k, cur |-> cur]

\* Children::next: the node at the front cursor, 0 when the cursors have met.
children_next(cur) ==
  IF cur.front > cur.back
  THEN Taken(0, cur)
  ELSE Taken(cur.front, [cur EXCEPT !.front = @ + 1])

\* The mutant does not notice that the front cursor has passed.
children_next_back_crossing(cur) ==
  IF cur.back < cur.lo
  THEN Taken(0, cur)
  ELSE Taken(cur.back, [cur EXCEPT !.back = @ - 1])

\* Children::next_back: the node at the back cursor.
children_next_back(cur) ==
  IF cur.front > cur.back
  THEN Taken(0, cur)
  ELSE Taken(cur.back, [cur EXCEPT !.back = @ - 1])

\* Outcome of one advance: the cursors, the child that yielded (0: None), the
\* item, the children scanned on the way and the diagnostics emitted.
Advanced(cur, k, item, visited, diags) ==
  [cur |-> cur, k |-> k, item |-> item, visited |-> visited, diags |-> diags]

RECURSIVE find_map(_, _, _, _, _)
\* The child t.k was taken and the closure returned r: yield, or go on.
found(kids, t, r, back, visited, diags) ==
  IF IsSome(r.item)
  THEN Advanced(t.cur, t.k, r.item, Append(visited, t.k), diags \o LoggedAll(t.k, r.diags))
  ELSE find_map(kids, t.cur, back, Append(visited, t.k), diags \o LoggedAll(t.k, r.diags))

\* t is what the children iterator returned: nothing, or a child to scan.
taken(kids, t, back, visited, diags) ==
  IF t.k = 0
  THEN Advanced(t.cur, 0, None, visited, diags)
  ELSE found(kids, t, scan_entry(kids[t.k]), back, visited, diags)

\* Iterator::find_map over the children, taken from the back or the front.
find_map(kids, cur, back, visited, diags) ==
  taken(kids, IF back THEN children_next_back(cur) ELSE children_next(cur),
        back, visited, diags)

\* The mutant ends the sequence at the first child that yields nothing.
map_while_found(t, r) ==
  IF IsSome(r.item)
  THEN Advanced(t.cur, t.k, r.item, << t.k >>, LoggedAll(t.k, r.diags))
  ELSE Advanced([t.cur EXCEPT !.front = t.cur.back + 1], 0, None,
                << t.k >>, LoggedAll(t.k, r.diags))
map_while_taken(kids, t) ==
  IF t.k = 0
  THEN Advanced(t.cur, 0, None, << >>, << >>)
  ELSE map_while_found(t, scan_entry(kids[t.k]))
map_while_next(kids, cur) == map_while_taken(kids, children_next(cur))

\* The mutants of FilterMap::next and FilterMap::next_back: next also scans
\* the child after the one it yields from, without taking it; next_back
\* takes the children from the front.
peeked(kids, a) ==
  IF a.k # 0 /\ a.cur.front <= a.cur.back
  THEN Advanced(a.cur, a.k, a.item, Append(a.visited, a.cur.front),
                a.diags \o LoggedAll(a.cur.front, scan_entry(kids[a.cur.front]).diags))
  ELSE a
filter_map_next_peeking(kids, cur) == peeked(kids, find_map(kids, cur, FALSE, << >>, << >>))
filter_map_next_back_forward(kids, cur) == find_map(kids, cur, FALSE, << >>, << >>)

\* FilterMap::next
filter_map_next(kids, cur) == find_map(kids, cur, FALSE, << >>, << >>)

\* FilterMap::next_back
filter_map_next_back(kids, cur) == find_map(kids, cur, TRUE, << >>, << >>)

Yield(a) == [k |-> a.k, entry |-> Unwrap(a.item)]
Count(seq, k) == Cardinality({j \in DOMAIN seq : seq[j] = k})

\* The bookkeeping common to both advances.
Record(h, a, op) ==
  /\ iter' = [iter EXCEPT ![h] = a.cur]
  /\ scans' = [scans EXCEPT ![h] = [k \in DOMAIN @ |-> @[k] + Count(a.visited, k)]]
  /\ log' = [log EXCEPT ![h] = @ \o a.diags]
  /\ last' = [last EXCEPT ![h] =
       [op |-> op, ret |-> a.k,
        yop |-> IF a.k = 0 THEN @.yop ELSE op, yk |-> IF a.k = 0 THEN @.yk ELSE a.k]]

\* The caller receives the outcome a of next.
Returned(h, a) ==
  /\ Record(h, a, "next")
  /\ fwd' = [fwd EXCEPT ![h] = IF a.k = 0 THEN @ ELSE Append(@, Yield(a))]

\* The caller receives the outcome a of next_back.
ReturnedBack(h, a) ==
  /\ Record(h, a, "next_back")
  /\ bwd' = [bwd EXCEPT ![h] = IF a.k = 0 THEN @ ELSE Append(@, Yield(a))]

next(h) ==
  /\ result[h] = "Ok"
  /\ \E a \in {filter_map_next(UrlsetChildren, iter[h])} : Returned(h, a)
  /\ UNCHANGED << doc, result, bwd >>

next_back(h) ==
  /\ result[h] = "Ok"
  /\ \E a \in {filter_map_next_back(UrlsetChildren, iter[h])} : ReturnedBack(h, a)
  /\ UNCHANGED << doc, result, fwd >>

\* Clone of the iterator of handle h into the unused handle g: the clone
\* starts on the children h has not taken yet.
clone(h, g) ==
  /\ result[h] = "Ok"
  /\ result[g] = "NotCalled"
  /\ result' = [result EXCEPT ![g] = "Ok"]
  /\ iter' = [iter EXCEPT ![g] =
       [front |-> iter[h].front, back |-> iter[h].back,
        lo |-> iter[h].front, hi |-> iter[h].back]]
  /\ scans' = [scans EXCEPT ![g] = [k \in DOMAIN scans[h] |-> 0]]
  /\ UNCHANGED << doc, fwd, bwd, log, last >>

\* Handles are handed out in order: h is the lowest handle not in use.
Lowest(h) == \A g \in Handles : g < h => result[g] # "NotCalled"

Next ==
  \/ \E h \in Handles : Lowest(h) /\ iterate(h)
  \/ \E h \in Handles : next(h)
  \/ \E h \in Handles : next_back(h)
  \/ \E h, g \in Handles : Lowest(g) /\ clone(h, g)

Spec == Init /\ [][Next]_vars

\* One traversal of a document with one entry.
NextEntry ==
  \/ iterate(1)
  \/ next(1)
  \/ next_back(1)

SpecEntry == InitEntry /\ [][NextEntry]_vars

(***************************************************************************)
(* Vocabulary of the properties.  It reads the document tree directly and  *)
(* does not go through the operators above.                                *)
(***************************************************************************)
InUse == {h \in Handles : result[h] = "Ok"}
Kids == UrlsetChildren
Reverse(seq) == [j \in 1..Len(seq) |-> seq[Len(seq) + 1 - j]]
Entries(ys) == [j \in 1..Len(ys) |-> ys[j].entry]
Yields(h) == {fwd[h][j] : j \in DOMAIN fwd[h]} \cup {bwd[h][j] : j \in DOMAIN bwd[h]}
YieldsFrom(h, k) == {y \in Yields(h) : y.k = k}
HowMany(h, k) ==
  Cardinality({j \in DOMAIN fwd[h] : fwd[h][j].k = k})
    + Cardinality({j \in DOMAIN bwd[h] : bwd[h][j].k = k})
\* The traversal of h is complete: its cursors have met.
Exhausted(h) == result[h] = "Ok" /\ iter[h].front > iter[h].back
\* h was returned by iterate (or cloned before any advance): it covers all children.
Whole(h) == result[h] = "Ok" /\ iter[h].lo = 1 /\ iter[h].hi = Len(Kids)
\* What a complete traversal has yielded, put in document order.
Assembled(h) == fwd[h] \o Reverse(bwd[h])
DiagsAbout(h, k) == SelectSeq(log[h], LAMBDA d : d.k = k)
ErrorsAbout(h, k) == SelectSeq(log[h], LAMBDA d : d.k = k /\ d.level = "error")
WarningsAbout(h, k, msg) == SelectSeq(log[h], LAMBDA d : d.k = k /\ d.msg = msg)

\* The element children of node c named n, and those of them that have text.
Named(c, n) == SelectSeq(c.kids, LAMBDA f : f.kind = "element" /\ f.name = n)
HasText(f) == f.kids # << >> /\ f.kids[1].kind = "text"
WithText(c, n) == SelectSeq(Named(c, n), HasText)
TextOf(f) == f.kids[1].text
Last(seq) == seq[Len(seq)]

\* The first node of the document that is an element, if any.
FirstElement ==
  {i \in DOMAIN doc : doc[i].kind = "element" /\ \A j \in 1..(i - 1) : doc[j].kind # "element"}
RootIsUrlset == \E i \in FirstElement : doc[i].name = "urlset"
RootMisnamed == \E i \in FirstElement : doc[i].name # "urlset"

\* The text is one of the seven tokens, ignoring ASCII case: the variant.
Variants(t) ==
  {f \in Frequency : /\ Len(t) = Len(Token(f))
                     /\ \A i \in 1..Len(t) : to_ascii_lowercase(t[i]) = Token(f)[i]}
\* The text parses to a number between 0.0 and 1.0.
GoodPriority(t) ==
  /\ IsSome(parse_f32(t))
  /\ Unwrap(parse_f32(t)).kind = "finite"
  /\ Unwrap(parse_f32(t)).num <= Unwrap(parse_f32(t)).den
  /\ ~Unwrap(parse_f32(t)).neg \/ Unwrap(parse_f32(t)).num = 0
GoodFreq(f) == Variants(TextOf(f)) # {}
GoodPrio(f) == GoodPriority(TextOf(f))

(***************************************************************************)
(* C1                                                                      *)
(***************************************************************************)
\* C1: iterate returns Ok exactly when the first top-level element is named
\* urlset; otherwise (another name, or no element) it returns UrlsetMissing,
\* nothing is ever yielded, and in the misnamed case exactly one error
\* diagnostic is logged (none otherwise).
C1_UrlsetMissing ==
  \A h \in Handles :
    result[h] # "NotCalled" =>
      /\ result[h] = "Ok" <=> RootIsUrlset
      /\ result[h] = "UrlsetMissing" =>
           /\ fwd[h] = << >> /\ bwd[h] = << >>
           /\ ~ENABLED next(h) /\ ~ENABLED next_back(h)
           /\ RootMisnamed => Len(log[h]) = 1 /\ log[h][1].level = "error"
           /\ ~RootMisnamed => log[h] = << >>

\* iterate has failed on a document whose root element has another name.
C1_Witness ==
  \E h \in Handles : result[h] = "UrlsetMissing" /\ RootMisnamed /\ Len(log[h]) = 1

(***************************************************************************)
(* C2                                                                      *)
(***************************************************************************)
\* Every child element of <urlset> has exactly one <loc> with text.
OneLocEach == \A k \in DOMAIN Kids : is_element(Kids[k]) => Len(WithText(Kids[k], "loc")) = 1
ElementKids == SelectSeq(Kids, is_element)
ExpectedLocations == [j \in 1..Len(ElementKids) |-> TextOf(WithText(ElementKids[j], "loc")[1])]
Locations(ys) == [j \in 1..Len(ys) |-> ys[j].entry.location]
ForwardOnly(h) == Exhausted(h) /\ bwd[h] = << >> /\ Whole(h)
BackwardOnly(h) == Exhausted(h) /\ fwd[h] = << >> /\ Whole(h)

\* C2: when every child element of <urlset> has exactly one <loc> with text,
\* a complete traversal by next yields one entry per child element, with the
\* <loc> texts in document order; a complete traversal by next_back yields
\* them in reverse order, and its entries are those of the forward traversal
\* reversed.
C2_OrderAndReverse ==
  /\ \A h \in Handles :
       ForwardOnly(h) /\ OneLocEach => Locations(fwd[h]) = ExpectedLocations
  /\ \A h \in Handles :
       BackwardOnly(h) /\ OneLocEach => Locations(bwd[h]) = Reverse(ExpectedLocations)
  /\ \A h, g \in Handles :
       ForwardOnly(h) /\ BackwardOnly(g) /\ OneLocEach =>
         Entries(bwd[g]) = Reverse(Entries(fwd[h]))

\* One handle went forward and the other backward over three entries with
\* two different locations.
C2_Witness ==
  /\ OneLocEach
  /\ Len(ElementKids) = 3
  /\ ExpectedLocations # Reverse(ExpectedLocations)
  /\ ForwardOnly(1) /\ BackwardOnly(2)
  /\ Len(fwd[1]) = 3 /\ Len(bwd[2]) = 3

(***************************************************************************)
(* C3                                                                      *)
(***************************************************************************)
RECURSIVE ScannedEach(_)
\* What each of the children yields when it is scanned on its own.
ScannedEach(kids) ==
  IF kids = << >> THEN << >>
  ELSE << scan_entry(Head(kids)).item >> \o ScannedEach(Tail(kids))

ScannedAlone == ScannedEach(Kids)

RECURSIVE Collected(_, _, _)
\* The items of the children a..b, in order, alone[k] being what child k yields.
Collected(alone, a, b) ==
  IF a > b THEN << >>
  ELSE (IF IsSome(alone[a]) THEN << [k |-> a, entry |-> Unwrap(alone[a])] >> ELSE << >>)
         \o Collected(alone, a + 1, b)

\* C3: what next has yielded is the concatenation, in document order, of what
\* each child taken from the front yields on its own, and what next_back has
\* yielded is the same for the children taken from the back, reversed; the
\* sequence ends (None) only when every child has been scanned.
C3_SiblingsUnaffected ==
  \A alone \in {ScannedAlone} : \A h \in InUse :
    /\ fwd[h] = Collected(alone, iter[h].lo, iter[h].front - 1)
    /\ bwd[h] = Reverse(Collected(alone, iter[h].back + 1, iter[h].hi))
    /\ Exhausted(h) => Assembled(h) = Collected(alone, iter[h].lo, iter[h].hi)
    /\ last[h].op # "none" /\ last[h].ret = 0 =>
         \A k \in iter[h].lo..iter[h].hi : scans[h][k] >= 1

\* A complete traversal has yielded a child before and a child after a
\* dropped one.
C3_Witness ==
  \E h \in InUse :
    /\ Whole(h) /\ Exhausted(h) /\ last[h].ret = 0 /\ last[h].op = "next"
    /\ \E i, j, k \in DOMAIN Kids :
         /\ i < j /\ j < k
         /\ YieldsFrom(h, i) # {} /\ YieldsFrom(h, k) # {}
         /\ is_element(Kids[j]) /\ YieldsFrom(h, j) = {} /\ scans[h][j] = 1

(***************************************************************************)
(* C4                                                                      *)
(***************************************************************************)
\* C4 as stated: a child of <urlset> with two or more <loc> child elements
\* yields nothing.
C4_AsStated ==
  \A h \in InUse : \A k \in DOMAIN Kids :
    Len(Named(Kids[k], "loc")) >= 2 => YieldsFrom(h, k) = {}

\* C4, amended: a child of <urlset> with two or more <loc> child elements
\* that have text yields nothing, and once scanned it has logged the error
\* about the second <loc> and no other error.
C4_DuplicateLocRejected ==
  \A h \in InUse : \A k \in DOMAIN Kids :
    Len(WithText(Kids[k], "loc")) >= 2 =>
      /\ YieldsFrom(h, k) = {}
      /\ scans[h][k] = 1 =>
           /\ Len(ErrorsAbout(h, k)) = 1
           /\ ErrorsAbout(h, k)[1].msg = "Multiple <loc> in entry."

\* The traversal is complete over an entry with a <lastmod> and two <loc>
\* with text, and nothing was yielded.
C4_Witness ==
  /\ Exhausted(1) /\ last[1].op # "none" /\ Len(Kids) = 1
  /\ Len(WithText(Kids[1], "loc")) = 2
  /\ Len(WithText(Kids[1], "lastmod")) = 1
  /\ fwd[1] = << >> /\ bwd[1] = << >> /\ scans[1][1] = 1

(***************************************************************************)
(* C5                                                                      *)
(***************************************************************************)
\* C5: the location of every yielded entry is the text of a <loc> child
\* element of the child it was built from; a child with no <loc> that has
\* text, whatever its name or kind, yields nothing and logs exactly one error
\* each time it is scanned, which is at most once per traversal and exactly
\* once in a complete one.
C5_LocationAlwaysPresent ==
  \A h \in InUse :
    /\ \A y \in Yields(h) :
         \E j \in DOMAIN WithText(Kids[y.k], "loc") :
           y.entry.location = TextOf(WithText(Kids[y.k], "loc")[j])
    /\ \A k \in DOMAIN Kids :
         WithText(Kids[k], "loc") = << >> =>
           /\ YieldsFrom(h, k) = {}
           /\ scans[h][k] <= 1
           /\ Len(ErrorsAbout(h, k)) = scans[h][k]
           /\ Exhausted(h) /\ k \in iter[h].lo..iter[h].hi => Len(ErrorsAbout(h, k)) = 1

\* The traversal is complete over an entry that has a <lastmod> and a <loc>
\* element without text: nothing was yielded and one error was logged.
C5_Witness ==
  /\ Exhausted(1) /\ Len(Kids) = 1
  /\ WithText(Kids[1], "loc") = << >> /\ Len(Named(Kids[1], "loc")) = 1
  /\ Len(WithText(Kids[1], "lastmod")) = 1
  /\ fwd[1] = << >> /\ bwd[1] = << >>
  /\ Len(ErrorsAbout(1, 1)) = 1

(***************************************************************************)
(* C6                                                                      *)
(***************************************************************************)
\* The value the occurrence f of each element stands for.
LastmodOf(f) == IF HasText(f) THEN Some(TextOf(f)) ELSE None
FreqOf(f) ==
  IF HasText(f) /\ GoodFreq(f) THEN Some(CHOOSE v \in Variants(TextOf(f)) : TRUE) ELSE None
PrioOf(f) == IF HasText(f) /\ GoodPrio(f) THEN parse_f32(TextOf(f)) ELSE None

\* C6 as stated: in every yielded entry each of the three fields has the
\* value of the last occurrence (with text) of its element in the entry, the
\* value of a text that is not accepted being None, and a warning is logged
\* when an element occurs more than once.
C6_AsStated ==
  \A h \in InUse : \A y \in Yields(h) :
    LET c == Kids[y.k]
    IN /\ WithText(c, "lastmod") # << >> =>
            y.entry.last_modified = LastmodOf(Last(WithText(c, "lastmod")))
       /\ WithText(c, "changefreq") # << >> =>
            y.entry.change_frequency = FreqOf(Last(WithText(c, "changefreq")))
       /\ WithText(c, "priority") # << >> =>
            y.entry.priority = PrioOf(Last(WithText(c, "priority")))
       /\ \/ Len(WithText(c, "lastmod")) >= 2
          \/ Len(WithText(c, "changefreq")) >= 2
          \/ Len(WithText(c, "priority")) >= 2
          => \E j \in DOMAIN log[h] : log[h][j].k = y.k /\ log[h][j].level = "warn"

\* The occurrences with text that come after an accepted occurrence.
\* (good[j] tells whether the j-th occurrence is accepted.)
AfterAccepted(good) ==
  IF \E j \in DOMAIN good : good[j]
  THEN Len(good) - (CHOOSE j \in DOMAIN good : good[j] /\ \A i \in 1..(j - 1) : ~good[i])
  ELSE 0
Accepted(fs, n) ==
  [j \in DOMAIN fs |-> CASE n = "lastmod" -> TRUE
                         [] n = "changefreq" -> GoodFreq(fs[j])
                         [] n = "priority" -> GoodPrio(fs[j])]

\* C6, amended: in every yielded entry each of the three fields has the
\* value of the last occurrence of its element whose text is accepted (any
\* text for lastmod, one of the seven tokens for changefreq, a number in
\* [0.0, 1.0] for priority), and is None when there is none; a "Multiple"
\* warning is logged for each occurrence with text that follows an accepted
\* one; a scanned entry with exactly one <loc> with text is yielded however
\* many times the other elements occur.
C6_LastAcceptedWins ==
  \A h \in InUse :
    /\ \A y \in Yields(h) :
         LET c == Kids[y.k]
             lm == WithText(c, "lastmod")
             cf == SelectSeq(WithText(c, "changefreq"), GoodFreq)
             pr == SelectSeq(WithText(c, "priority"), GoodPrio)
         IN /\ y.entry.last_modified = IF lm = << >> THEN None ELSE LastmodOf(Last(lm))
            /\ y.entry.change_frequency = IF cf = << >> THEN None ELSE FreqOf(Last(cf))
            /\ y.entry.priority = IF pr = << >> THEN None ELSE PrioOf(Last(pr))
            /\ Len(WarningsAbout(h, y.k, "Multiple <lastmod> in entry."))
                 = AfterAccepted(Accepted(WithText(c, "lastmod"), "lastmod"))
            /\ Len(WarningsAbout(h, y.k, "Multiple <changefreq> in entry."))
                 = AfterAccepted(Accepted(WithText(c, "changefreq"), "changefreq"))
            /\ Len(WarningsAbout(h, y.k, "Multiple <priority> in entry."))
                 = AfterAccepted(Accepted(WithText(c, "priority"), "priority"))
    /\ \A k \in DOMAIN Kids :
         scans[h][k] = 1 /\ Len(WithText(Kids[k], "loc")) = 1 => HowMany(h, k) = 1

\* An entry with two different <lastmod> was yielded with the second value,
\* and the warning was logged.
C6_Witness ==
  \E y \in Yields(1) :
    /\ Len(WithText(Kids[y.k], "lastmod")) = 2
    /\ TextOf(WithText(Kids[y.k], "lastmod")[1]) # TextOf(WithText(Kids[y.k], "lastmod")[2])
    /\ y.entry.last_modified = Some(TextOf(WithText(Kids[y.k], "lastmod")[2]))
    /\ Len(WarningsAbout(1, y.k, "Multiple <lastmod> in entry.")) = 1

(***************************************************************************)
(* C7                                                                      *)
(***************************************************************************)
\* C7 as stated: in every yielded entry, a <changefreq> whose text is not a
\* frequency token leaves change_frequency None, and a <priority> whose text
\* is no number in [0.0, 1.0] leaves priority None.
C7_AsStated ==
  \A h \in InUse : \A y \in Yields(h) :
    LET c == Kids[y.k]
    IN /\ (\E j \in DOMAIN WithText(c, "changefreq") : ~GoodFreq(WithText(c, "changefreq")[j]))
            => y.entry.change_frequency = None
       /\ (\E j \in DOMAIN WithText(c, "priority") : ~GoodPrio(WithText(c, "priority")[j]))
            => y.entry.priority = None

\* C7, amended: in every yielded entry, change_frequency is None when no
\* <changefreq> of the entry has a frequency token as text, and priority is
\* None when no <priority> of the entry has a number in [0.0, 1.0] as text;
\* a scanned entry with exactly one <loc> with text is yielded whatever the
\* texts of its <changefreq> and <priority>, and iterate has returned Ok.
C7_InvalidFieldUnset ==
  \A h \in Handles :
    /\ \A y \in Yields(h) :
         LET c == Kids[y.k]
         IN /\ (\A j \in DOMAIN WithText(c, "changefreq") : ~GoodFreq(WithText(c, "changefreq")[j]))
                 => y.entry.change_frequency = None
            /\ (\A j \in DOMAIN WithText(c, "priority") : ~GoodPrio(WithText(c, "priority")[j]))
                 => y.entry.priority = None
    /\ result[h] # "NotCalled" /\ RootIsUrlset => result[h] = "Ok"
    /\ result[h] = "Ok" =>
         \A k \in DOMAIN Kids :
           scans[h][k] = 1 /\ Len(WithText(Kids[k], "loc")) = 1 => HowMany(h, k) = 1

\* An entry whose <changefreq> is no token and whose <priority> does not
\* parse was yielded with both fields None.
C7_Witness ==
  \E y \in Yields(1) :
    /\ Len(WithText(Kids[y.k], "changefreq")) = 1 /\ Len(WithText(Kids[y.k], "priority")) = 1
    /\ ~GoodFreq(WithText(Kids[y.k], "changefreq")[1])
    /\ parse_f32(TextOf(WithText(Kids[y.k], "priority")[1])) = None
    /\ y.entry.change_frequency = None /\ y.entry.priority = None

(***************************************************************************)
(* C8                                                                      *)
(***************************************************************************)
\* C8: in every yielded entry, priority is None or the number a <priority>
\* child of the entry parses to, which lies in [0.0, 1.0]; change_frequency
\* is None or the variant whose token equals, ignoring ASCII case and over
\* its whole length, the text of a <changefreq> child of the entry.
C8_OnlyValidatedValues ==
  \A h \in InUse : \A y \in Yields(h) :
    LET c == Kids[y.k]
    IN /\ IsSome(y.entry.priority) =>
            /\ Unwrap(y.entry.priority).kind = "finite"
            /\ Unwrap(y.entry.priority).num <= Unwrap(y.entry.priority).den
            /\ ~Unwrap(y.entry.priority).neg \/ Unwrap(y.entry.priority).num = 0
            /\ \E j \in DOMAIN WithText(c, "priority") :
                 parse_f32(TextOf(WithText(c, "priority")[j])) = y.entry.priority
       /\ IsSome(y.entry.change_frequency) =>
            /\ Unwrap(y.entry.change_frequency) \in Frequency
            /\ \E j \in DOMAIN WithText(c, "changefreq") :
                 Unwrap(y.entry.change_frequency) \in Variants(TextOf(WithText(c, "changefreq")[j]))

\* An entry was yielded with the priority and the frequency of its children,
\* the frequency being written in mixed case.
C8_Witness ==
  \E y \in Yields(1) :
    /\ IsSome(y.entry.priority) /\ y.entry.change_frequency = Some("Weekly")
    /\ \E j \in DOMAIN WithText(Kids[y.k], "changefreq") :
         TextOf(WithText(Kids[y.k], "changefreq")[j]) # Token("Weekly")

(***************************************************************************)
(* C9                                                                      *)
(***************************************************************************)
IsPrefix(a, b) == Len(a) <= Len(b) /\ SubSeq(b, 1, Len(a)) = a

\* Any two traversals agree: on every child both have scanned, in what they
\* yielded from it and in the diagnostics about it; when both took children
\* only from the front (or only from the back), starting at the same child,
\* in the whole sequence and the whole log as far as both have got; when both are complete over the
\* same children, in the sequence put in document order.
C9_Agree ==
  \A h, g \in InUse :
    /\ \A k \in DOMAIN Kids :
         scans[h][k] >= 1 /\ scans[g][k] >= 1 =>
           /\ {y.entry : y \in YieldsFrom(h, k)} = {y.entry : y \in YieldsFrom(g, k)}
           /\ HowMany(h, k) = HowMany(g, k)
           /\ DiagsAbout(h, k) = DiagsAbout(g, k)
    /\ iter[h].lo = iter[g].lo /\ iter[h].back = iter[h].hi /\ iter[g].back = iter[g].hi
       /\ iter[h].front <= iter[g].front
         => IsPrefix(fwd[h], fwd[g]) /\ IsPrefix(log[h], log[g])
    /\ iter[h].hi = iter[g].hi /\ iter[h].front = iter[h].lo /\ iter[g].front = iter[g].lo
       /\ iter[h].back >= iter[g].back
         => IsPrefix(bwd[h], bwd[g]) /\ IsPrefix(log[h], log[g])
    /\ Exhausted(h) /\ Exhausted(g) /\ iter[h].lo = iter[g].lo /\ iter[h].hi = iter[g].hi
         => Assembled(h) = Assembled(g)

\* A step on one handle leaves every other handle in use as it was.
C9_Apart ==
  \A h \in Handles :
    iter'[h] # iter[h] \/ last'[h] # last[h] \/ result'[h] # result[h] =>
      \A g \in InUse \ {h} :
        /\ iter'[g] = iter[g] /\ fwd'[g] = fwd[g] /\ bwd'[g] = bwd[g]
        /\ log'[g] = log[g] /\ scans'[g] = scans[g] /\ result'[g] = result[g]

\* C9: two traversals of the same document (two calls of iterate, or an
\* iterator and its clone), advanced in any interleaving, yield the same
\* entries and emit the same diagnostics, and a step of one never changes
\* the other.
C9_Restartable == []C9_Agree /\ [][C9_Apart]_vars

\* Two complete traversals of three children, one by next only and one that
\* also used next_back, have yielded the same two entries and logged the
\* same diagnostic.
C9_Witness ==
  /\ Whole(1) /\ Whole(2) /\ Exhausted(1) /\ Exhausted(2) /\ Len(Kids) = 3
  /\ bwd[1] = << >> /\ Len(fwd[1]) = 2
  /\ bwd[2] # << >> /\ fwd[2] # << >>
  /\ Assembled(1) = Assembled(2)
  /\ log[1] # << >> /\ log[1] = log[2]

(***************************************************************************)
(* C10                                                                     *)
(***************************************************************************)
\* C10 as stated: no child is scanned more than once, and no child beyond the
\* one that produced the last yielded item, in the direction of the advance
\* that yielded it, has been scanned.
C10_AsStated ==
  \A h \in InUse :
    /\ \A k \in DOMAIN Kids : scans[h][k] <= 1
    /\ last[h].yop = "next" => \A k \in DOMAIN Kids : k > last[h].yk => scans[h][k] = 0
    /\ last[h].yop = "next_back" => \A k \in DOMAIN Kids : k < last[h].yk => scans[h][k] = 0

\* The children scanned are those the cursors have passed, each once; iterate
\* scans nothing and logs nothing about an entry; an advance that yields
\* stops at the child it yields from; an advance that returns None has
\* scanned every child.
C10_Lazy ==
  \A h \in InUse :
    /\ \A k \in DOMAIN Kids :
         scans[h][k] = IF \/ iter[h].lo <= k /\ k < iter[h].front
                          \/ iter[h].back < k /\ k <= iter[h].hi
                       THEN 1 ELSE 0
    /\ last[h].op = "none" => log[h] = << >> /\ iter[h].front = iter[h].lo
                              /\ iter[h].back = iter[h].hi
    /\ last[h].op = "next" /\ last[h].ret # 0 => iter[h].front = last[h].ret + 1
    /\ last[h].op = "next_back" /\ last[h].ret # 0 => iter[h].back = last[h].ret - 1
    /\ last[h].op # "none" /\ last[h].ret = 0 =>
         \A k \in iter[h].lo..iter[h].hi : scans[h][k] = 1
    /\ \A j \in DOMAIN log[h] : log[h][j].k \in DOMAIN Kids /\ scans[h][log[h][j].k] = 1

\* A step only adds diagnostics, and those it adds to the log of an iterator
\* are about children that this very step scanned.
C10_OnDemand ==
  \A h \in Handles :
    /\ IsPrefix(log[h], log'[h])
    /\ result[h] = "Ok" =>
         \A j \in (Len(log[h]) + 1)..Len(log'[h]) :
           scans'[h][log'[h][j].k] = scans[h][log'[h][j].k] + 1

\* C10, amended: a successful iterate emits no diagnostic about an entry; a
\* diagnostic about a child is emitted only during the advance that scans
\* it; no child is scanned more than once; an advance that yields an item has
\* taken no child beyond the one that produced it from its end of the
\* sequence, so that the children scanned are those up to the last item
\* yielded by next and those from the last item yielded by next_back on; an
\* advance that returns None has scanned all the children left.
C10_LazyOnce == []C10_Lazy /\ [][C10_OnDemand]_vars

\* After next and next_back, the first child (which logged a warning) and the
\* last child have been scanned and the middle one has not.
C10_Witness ==
  \E h \in InUse :
    /\ Whole(h) /\ Len(Kids) = 3
    /\ Len(fwd[h]) = 1 /\ Len(bwd[h]) = 1
    /\ scans[h] = << 1, 0, 1 >>
    /\ log[h] # << >>
====
